---- MODULE Spec2Model ----
(***************************************************************************)
(* The stock-picking competition pipeline of src/src/data_processing.py    *)
(* over the store of src/src/db/database_remote.py.                        *)
(*                                                                         *)
(* Text values that the code inspects (tickers, suffixes) are sequences of *)
(* one-character strings; names and exchange codes are plain strings.      *)
(* Dates are day numbers (ISO date strings compare like them).  REAL       *)
(* values are exact fractions <<n, d>>: d > 0 is a finite value, <<0, 0>>  *)
(* is NaN (which SQLite stores as NULL) and <<1, 0>>, <<-1, 0>> are the    *)
(* infinities; floating-point rounding is not modelled.                    *)
(***************************************************************************)
EXTENDS Integers, Sequences, FiniteSets, TLC

(***************************************************************************)
(* Bounds of the model.                                                    *)
(***************************************************************************)
\* Last day for which the price source has data; the clock stops there.
MaxDate == 3
\* In one run either every fetch fails, or at most this many symbols and
\* currency pairs fail.
MaxFailed == 1

\* the longest raw ticker given to get_formatted_ticker on its own
MaxTicker == 3
\* the most rows of a value series given to the summarizer on its own
MaxRows == 2
\* the most rows of a frame given to write_data on its own, and the largest
\* batch size
MaxFrame == 2
MaxBatch == 2

(***************************************************************************)
(* Program constants.                                                      *)
(***************************************************************************)
\* INITIAL_VALUE_USD = 1e5
INITIAL_VALUE_USD == 100000
\* FIXED_DATE = '2025-03-04', as a day number
FIXED_DATE == 2

Dates == 1..MaxDate

(***************************************************************************)
(* REAL arithmetic (numpy float64 semantics for division by zero).         *)
(***************************************************************************)
NaN == <<0, 0>>
NULL == <<0, 0>>

Abs(x) == IF x < 0 THEN -x ELSE x

RECURSIVE Gcd(_, _)
Gcd(a, b) == IF b = 0 THEN a ELSE Gcd(b, a % b)

Sign(x) == IF x > 0 THEN 1 ELSE IF x < 0 THEN -1 ELSE 0

\* the fraction n/d in lowest terms; x/0 is NaN for x = 0 and +-inf otherwise
Frac(n, d) ==
    IF d = 0 THEN <<Sign(n), 0>>
    ELSE LET g == Gcd(Abs(n), Abs(d))
         IN  <<Sign(d) * (n \div g), Abs(d) \div g>>

Real(n) == <<n, 1>>

IsNaN(x) == x = NaN
IsInf(x) == x[2] = 0 /\ x[1] # 0
IsFinite(x) == x[2] > 0

RMul(x, y) ==
    IF IsNaN(x) \/ IsNaN(y) THEN NaN
    ELSE IF IsInf(x) \/ IsInf(y)
         THEN (IF x[1] = 0 \/ y[1] = 0 THEN NaN ELSE <<Sign(x[1]) * Sign(y[1]), 0>>)
    ELSE LET g1 == Gcd(Abs(x[1]), y[2])
             g2 == Gcd(Abs(y[1]), x[2])
         IN  Frac((x[1] \div g1) * (y[1] \div g2), (x[2] \div g2) * (y[2] \div g1))

RDiv(x, y) ==
    IF IsNaN(x) \/ IsNaN(y) THEN NaN
    ELSE IF IsInf(y) THEN (IF IsInf(x) THEN NaN ELSE Real(0))
    ELSE IF y[1] = 0 THEN <<Sign(x[1]), 0>>
    ELSE IF IsInf(x) THEN <<Sign(x[1]) * Sign(y[1]), 0>>
    ELSE RMul(x, <<Sign(y[1]) * y[2], Abs(y[1])>>)

RAdd(x, y) ==
    IF IsNaN(x) \/ IsNaN(y) THEN NaN
    ELSE IF IsInf(x) THEN (IF IsInf(y) /\ y[1] # x[1] THEN NaN ELSE x)
    ELSE IF IsInf(y) THEN y
    ELSE LET g == Gcd(x[2], y[2])
         IN  Frac(x[1] * (y[2] \div g) + y[1] * (x[2] \div g), (x[2] \div g) * y[2])

RSub(x, y) == RAdd(x, <<-y[1], y[2]>>)

(***************************************************************************)
(* Text helpers.                                                           *)
(***************************************************************************)
\* str.endswith
EndsWith(s, suffix) ==
    /\ Len(s) >= Len(suffix)
    /\ SubSeq(s, Len(s) - Len(suffix) + 1, Len(s)) = suffix

Range(s) == {s[i] : i \in DOMAIN s}

\* the elements of a finite set of integers in ascending order
RECURSIVE SortedSeq(_)
SortedSeq(S) ==
    IF S = {} THEN <<>>
    ELSE LET m == CHOOSE x \in S : \A y \in S : x <= y
         IN  <<m>> \o SortedSeq(S \ {m})

SetMax(S) == CHOOSE x \in S : \A y \in S : y <= x

(***************************************************************************)
(* get_formatted_ticker                                                    *)
(***************************************************************************)
\* get_formatted_ticker with the Toronto suffix alone, without the share class
get_formatted_ticker_to(ticker, exchange) ==
    IF exchange = "NYSE" \/ exchange = "NASDAQ" THEN ticker
    ELSE IF exchange = "HKG" THEN ticker \o <<".", "H", "K">>
    ELSE IF exchange = "EPA" THEN ticker \o <<".", "P", "A">>
    ELSE IF exchange = "LON" THEN ticker \o <<".", "L">>
    ELSE IF exchange = "TSE" THEN ticker \o <<".", "T", "O">>
    ELSE IF exchange = "CVE" THEN ticker \o <<".", "V">>
    ELSE IF exchange = "XETRA" THEN ticker \o <<".", "D", "E">>
    ELSE ticker

get_formatted_ticker(ticker, exchange) ==
    IF exchange = "NYSE" \/ exchange = "NASDAQ" THEN ticker
    ELSE IF exchange = "HKG" THEN ticker \o <<".", "H", "K">>
    ELSE IF exchange = "EPA" THEN ticker \o <<".", "P", "A">>
    ELSE IF exchange = "LON" THEN ticker \o <<".", "L">>
    ELSE IF exchange = "TSE" THEN ticker \o <<"-", "A", ".", "T", "O">>
    ELSE IF exchange = "CVE" THEN ticker \o <<".", "V">>
    ELSE IF exchange = "XETRA" THEN ticker \o <<".", "D", "E">>
    ELSE ticker

(***************************************************************************)
(* load_positions: the configured list, cut down to three participants.    *)
(* Weights are in hundredths.  As in the source list, one foreign ticker   *)
(* (0700 on HKG) and one domestic ticker are each held by two              *)
(* participants.  Abhi's weights sum to 0.5, the others' to 1.             *)
(***************************************************************************)
TSM == <<"T", "S", "M">>
ALV == <<"A", "L", "V">>
T0700 == <<"0", "7", "0", "0">>

load_positions ==
    << [name |-> "Apoorva", ticker |-> TSM,   exchange |-> "NYSE",   weight |-> 40],
       [name |-> "Apoorva", ticker |-> ALV,   exchange |-> "XETRA",  weight |-> 60],
       [name |-> "Abhi",    ticker |-> T0700, exchange |-> "HKG",    weight |-> 25],
       [name |-> "Abhi",    ticker |-> TSM,   exchange |-> "NYSE",   weight |-> 25],
       [name |-> "Conor",   ticker |-> T0700, exchange |-> "HKG",    weight |-> 100] >>

(***************************************************************************)
(* The price source (yfinance).  What it holds is fixed per symbol and     *)
(* day; a fetch returns it up to the end date unless the fetch of that     *)
(* symbol fails, which gives a series without values.                      *)
(***************************************************************************)
TSM_US == TSM
ALV_DE == <<"A", "L", "V", ".", "D", "E">>
T0700_HK == <<"0", "7", "0", "0", ".", "H", "K">>

\* the close of a symbol on a day in the symbol's own currency, NaN if none:
\* 0700.HK does not trade on day 3
Close(t, d) ==
    IF t = TSM_US THEN Real(6 + 2 * d)
    ELSE IF t = ALV_DE THEN Real(15 + 5 * d)
    ELSE IF t = T0700_HK THEN (IF d = 3 THEN NaN ELSE Real(5 * d))
    ELSE NaN

\* the close of <currency>USD=X on a day, NaN if none: EURUSD=X has no value
\* on day 3
FxClose(cur, d) ==
    IF cur = "HKD" THEN Real(IF d % 2 = 1 THEN 4 ELSE 2)
    ELSE IF cur = "EUR" THEN (IF d = 3 THEN NaN ELSE Real(IF d % 2 = 1 THEN 4 ELSE 2))
    ELSE IF cur = "GBP" THEN Real(3)
    ELSE IF cur = "CAD" THEN Real(5)
    ELSE NaN

\* yf.download(unique_tickers, start, end)['Close']: one column per distinct
\* symbol, indexed by the days on which any of them has a value
yf_download(tickers, end_date, failedT) ==
    LET cols == Range(tickers)
        Has(t, d) == t \notin failedT /\ d <= end_date /\ ~IsNaN(Close(t, d))
        index == {d \in Dates : \E t \in cols : Has(t, d)}
    IN  [index |-> index,
         cell  |-> [t \in cols |-> [d \in index |->
                        IF Has(t, d) THEN Close(t, d) ELSE NaN]]]

\* yf.download('<cur>USD=X', start, end)['Close']
yf_download_rate(cur, end_date, failedC) ==
    LET index == {d \in Dates : cur \notin failedC /\ d <= end_date
                                   /\ ~IsNaN(FxClose(cur, d))}
    IN  [d \in index |-> FxClose(cur, d)]

(***************************************************************************)
(* State.                                                                  *)
(***************************************************************************)
VARIABLES
    tables,        \* the store: table name -> its rows in insertion order
    schema,        \* table name -> "declared" (as create_tables made it, with
                   \* an id column) or "inferred" (as write_data re-created it)
    pc,            \* the stage process_all_data is about to run, or "idle"
    now,           \* the clock: today's day number, the end date of a fetch
    inputs,        \* the upstream condition of the current or last run
    rerun,         \* whether that run repeats the run before it: it began
                   \* on the same day under the same upstream condition
    snap,          \* the tables as they were when the current run began
    closest_date,  \* the anchor date the allocation stage resolved, 0 if none
    result,        \* how the last run ended: "none", "ok" or the error raised
    local,         \* the store of src/db/database.py (data/stocks.db), which
                   \* the dashboard reads: table name -> its rows
    call           \* one call of a function on its own: its arguments and,
                   \* once it has returned, its result; NoCall in the pipeline

vars == <<tables, schema, pc, now, inputs, rerun, snap, closest_date, result,
          local, call>>

TableNames ==
    {"positions", "daily_prices", "exchange_rates", "portfolio_values",
     "performance_metrics"}

\* a field of a row, NULL when the table has no such column
Field(row, f) == IF f \in DOMAIN row THEN row[f] ELSE NULL

(***************************************************************************)
(* write_data.  st is the store while a stage runs: its tables, their      *)
(* schemas and the exception that has been raised, if any ("none").        *)
(***************************************************************************)
\* the batch loop: executemany on data[i : i + batch_size] for i = 0, batch_size, ...
RECURSIVE InsertBatches(_, _, _)
InsertBatches(rows, data, batch_size) ==
    IF data = <<>> THEN rows
    ELSE LET n == IF Len(data) < batch_size THEN Len(data) ELSE batch_size
         IN  InsertBatches(rows \o SubSeq(data, 1, n),
                           SubSeq(data, n + 1, Len(data)), batch_size)

write_data(st, df, table_name, if_exists, batch_size) ==
    IF st.error # "none" THEN st
    ELSE IF df = <<>> THEN st
    \* DROP TABLE for 'replace', then CREATE TABLE from the frame's columns if
    \* the table does not exist
    ELSE IF if_exists = "replace" \/ st.schema[table_name] = "absent"
         THEN [st EXCEPT !.tables[table_name] = InsertBatches(<<>>, df, batch_size),
                         !.schema[table_name] = "inferred"]
    ELSE IF if_exists = "fail"
         THEN [st EXCEPT !.error = "ValueError: table already exists"]
    \* INSERT INTO t VALUES (?, ...) supplies one value per frame column, which
    \* SQLite rejects for a table that still has the id column of create_tables
    ELSE IF st.schema[table_name] = "declared"
         THEN [st EXCEPT !.error = "OperationalError: column count"]
    ELSE [st EXCEPT !.tables[table_name] =
                        InsertBatches(st.tables[table_name], df, batch_size)]

Store == [tables |-> tables, schema |-> schema, error |-> "none"]

(***************************************************************************)
(* Init: the stores after create_tables() and init_db(), every table empty. *)
(***************************************************************************)
NoTables == [t \in TableNames |-> <<>>]

NoInputs == [end_date |-> 0, failedT |-> {}, failedC |-> {}]

NoCall == [op |-> "none"]

\* the remote store after create_tables() and the local store after init_db()
InitStores ==
    /\ tables = NoTables
    /\ schema = [t \in TableNames |-> "declared"]
    /\ pc = "idle"
    /\ now = FIXED_DATE
    /\ inputs = NoInputs
    /\ rerun = FALSE
    /\ snap = NoTables
    /\ closest_date = 0
    /\ result = "none"
    /\ local = NoTables

Init == InitStores /\ call = NoCall

(***************************************************************************)
(* save_positions_to_db                                                    *)
(***************************************************************************)
positions_data ==
    [i \in DOMAIN load_positions |->
        LET position == load_positions[i]
        IN  [name |-> position.name,
             ticker |-> position.ticker,
             exchange |-> position.exchange,
             weight |-> position.weight,
             formatted_ticker |->
                 get_formatted_ticker(position.ticker, position.exchange)]]

save_positions(st) == write_data(st, positions_data, "positions", "replace", 1000)

(***************************************************************************)
(* download_and_save_stock_data                                            *)
(***************************************************************************)
\* the if/elif chain on the formatted ticker's suffix; "USD" stands for no list
SuffixCurrency(formatted_ticker) ==
    IF EndsWith(formatted_ticker, <<".", "H", "K">>) THEN "HKD"
    ELSE IF EndsWith(formatted_ticker, <<".", "P", "A">>) THEN "EUR"
    ELSE IF EndsWith(formatted_ticker, <<".", "L">>) THEN "GBP"
    ELSE IF EndsWith(formatted_ticker, <<".", "T", "O">>)
            \/ EndsWith(formatted_ticker, <<".", "V">>) THEN "CAD"
    ELSE IF EndsWith(formatted_ticker, <<".", "D", "E">>) THEN "EUR"
    ELSE "USD"

\* unique_tickers: one entry per position, repeats included
unique_tickers(positions_df) ==
    [i \in DOMAIN positions_df |-> positions_df[i].formatted_ticker]

\* hk_tickers, eur_tickers, gbp_tickers, cad_tickers: repeats included
currency_tickers(tickers, cur) ==
    SelectSeq(tickers, LAMBDA t : SuffixCurrency(t) = cur)

\* the rows built from a rate series, in date order, NaN skipped
rates_data(cur, rate) ==
    LET ds == SortedSeq({d \in DOMAIN rate : ~IsNaN(rate[d])})
    IN  [i \in DOMAIN ds |->
            [date |-> ds[i], from_currency |-> cur, to_currency |-> "USD",
             rate |-> rate[ds[i]]]]

\* save_rates with every currency's first write made as the HKD block makes
\* its own: 'replace'
save_rates_replace(st, cur, rate) ==
    LET data == rates_data(cur, rate)
        stored == {r.date : r \in {x \in Range(st.tables["exchange_rates"]) :
                       x.from_currency = cur /\ x.to_currency = "USD"}}
    IN  IF data = <<>> THEN st
        ELSE IF stored # {}
             THEN write_data(st, SelectSeq(data, LAMBDA r : r.date > SetMax(stored)),
                             "exchange_rates", "append", 1000)
        ELSE write_data(st, data, "exchange_rates", "replace", 1000)

\* the incremental write of one currency's rates: only HKD replaces the table
\* when it has no stored rate
save_rates(st, cur, rate) ==
    LET data == rates_data(cur, rate)
        stored == {r.date : r \in {x \in Range(st.tables["exchange_rates"]) :
                       x.from_currency = cur /\ x.to_currency = "USD"}}
    IN  IF data = <<>> THEN st
        ELSE IF stored # {}
             THEN write_data(st, SelectSeq(data, LAMBDA r : r.date > SetMax(stored)),
                             "exchange_rates", "append", 1000)
        ELSE write_data(st, data, "exchange_rates",
                        IF cur = "HKD" THEN "replace" ELSE "append", 1000)

\* convert with the unconverted price kept on a day that has no rate
convert_keep(prices_df, ticker, rate) ==
    IF ticker \notin DOMAIN prices_df.cell THEN prices_df
    ELSE [prices_df EXCEPT !.cell[ticker] =
             [d \in prices_df.index |->
                 IF d \in DOMAIN rate
                 THEN RMul(prices_df.cell[ticker][d], rate[d])
                 ELSE prices_df.cell[ticker][d]]]

\* temp_df['USD_Price'] = price * rate aligned on the price index, written
\* back into the ticker's column
convert(prices_df, ticker, rate) ==
    IF ticker \notin DOMAIN prices_df.cell THEN prices_df
    ELSE [prices_df EXCEPT !.cell[ticker] =
             [d \in prices_df.index |->
                 RMul(prices_df.cell[ticker][d],
                      IF d \in DOMAIN rate THEN rate[d] ELSE NaN)]]

\* for ticker in <cur>_tickers: convert
RECURSIVE convert_all(_, _, _)
convert_all(prices_df, tickers, rate) ==
    IF tickers = <<>> THEN prices_df
    ELSE convert_all(convert(prices_df, Head(tickers), rate), Tail(tickers), rate)

\* one "if <cur>_tickers:" block; acc carries the store and prices_df
currency_block(acc, cur, tickers, inp) ==
    LET mine == currency_tickers(tickers, cur)
        rate == yf_download_rate(cur, inp.end_date, inp.failedC)
        st2  == save_rates(acc.st, cur, rate)
    IN  IF acc.st.error # "none" \/ mine = <<>> THEN acc
        ELSE IF st2.error # "none" THEN [acc EXCEPT !.st = st2]
        ELSE [st |-> st2, prices_df |-> convert_all(acc.prices_df, mine, rate)]

\* the rows of one ticker's column, in date order, NaN skipped
ticker_rows(prices_df, ticker) ==
    IF ticker \notin DOMAIN prices_df.cell THEN <<>>
    ELSE LET ds == SortedSeq({d \in prices_df.index :
                                 ~IsNaN(prices_df.cell[ticker][d])})
         IN  [i \in DOMAIN ds |->
                 [date |-> ds[i], ticker |-> ticker,
                  price |-> prices_df.cell[ticker][ds[i]]]]

\* all_prices_data: for ticker in unique_tickers, repeats included
RECURSIVE all_prices_data(_, _)
all_prices_data(prices_df, tickers) ==
    IF tickers = <<>> THEN <<>>
    ELSE ticker_rows(prices_df, Head(tickers))
             \o all_prices_data(prices_df, Tail(tickers))

\* save_prices without the filter on the latest stored date
save_prices_all(st, data) ==
    LET stored == {r.date : r \in Range(st.tables["daily_prices"])}
    IN  IF st.error # "none" \/ data = <<>> THEN st
        ELSE IF stored # {}
             THEN write_data(st, data, "daily_prices", "append", 1000)
        ELSE write_data(st, data, "daily_prices", "replace", 1000)

\* the incremental write of the price rows
save_prices(st, data) ==
    LET stored == {r.date : r \in Range(st.tables["daily_prices"])}
    IN  IF st.error # "none" \/ data = <<>> THEN st
        ELSE IF stored # {}
             THEN write_data(st, SelectSeq(data, LAMBDA r : r.date > SetMax(stored)),
                             "daily_prices", "append", 1000)
        ELSE write_data(st, data, "daily_prices", "replace", 1000)

\* prices_df after the four currency blocks, with the store they wrote to
converted(st, inp) ==
    LET tickers == unique_tickers(st.tables["positions"])
        a0 == [st |-> st,
               prices_df |-> yf_download(tickers, inp.end_date, inp.failedT)]
        a1 == currency_block(a0, "HKD", tickers, inp)
        a2 == currency_block(a1, "EUR", tickers, inp)
        a3 == currency_block(a2, "GBP", tickers, inp)
    IN  currency_block(a3, "CAD", tickers, inp)

download_and_save_stock_data(st, inp) ==
    IF st.tables["positions"] = <<>> THEN st
    ELSE LET a == converted(st, inp)
         IN  save_prices(a.st, all_prices_data(a.prices_df,
                                   unique_tickers(st.tables["positions"])))

(***************************************************************************)
(* calculate_and_save_portfolio_allocations                                *)
(***************************************************************************)
AllocationColumns == {"shares", "price_at_start", "allocation_usd"}

\* add_missing_columns with the columns added as DEFAULT 0
add_missing_columns_zero(st) ==
    [st EXCEPT !.tables["positions"] =
        [i \in DOMAIN @ |->
            [f \in DOMAIN @[i] \cup AllocationColumns |->
                IF f \in DOMAIN @[i] THEN @[i][f] ELSE Real(0)]]]

\* ALTER TABLE positions ADD COLUMN for each of the three that is missing
add_missing_columns(st) ==
    [st EXCEPT !.tables["positions"] =
        [i \in DOMAIN @ |->
            [f \in DOMAIN @[i] \cup AllocationColumns |-> Field(@[i], f)]]]

\* person_weights[name]: the sum of the weights of the rows with that name
RECURSIVE SumWeights(_, _)
SumWeights(positions_df, name) ==
    IF positions_df = <<>> THEN 0
    ELSE (IF Head(positions_df).name = name THEN Head(positions_df).weight ELSE 0)
             + SumWeights(Tail(positions_df), name)

person_weights(positions_df) ==
    [name \in {positions_df[i].name : i \in DOMAIN positions_df} |->
        SumWeights(positions_df, name)]

\* closest_date_query with date < FIXED_DATE
closest_date_query_strict(daily_prices) ==
    LET ds == {r.date : r \in {x \in Range(daily_prices) : x.date < FIXED_DATE}}
    IN  IF ds = {} THEN 0 ELSE SetMax(ds)

\* SELECT date FROM daily_prices WHERE date <= FIXED_DATE ORDER BY date DESC
\* LIMIT 1; 0 stands for the empty result
closest_date_query(daily_prices) ==
    LET ds == {r.date : r \in {x \in Range(daily_prices) : x.date <= FIXED_DATE}}
    IN  IF ds = {} THEN 0 ELSE SetMax(ds)

\* price_query with date >= .. in place of date = ..
price_query_from_date(daily_prices, date, ticker) ==
    SelectSeq(daily_prices, LAMBDA r : r.date >= date /\ r.ticker = ticker)

\* price_query without the date condition
price_query_any_date(daily_prices, date, ticker) ==
    SelectSeq(daily_prices, LAMBDA r : r.ticker = ticker)

\* SELECT price FROM daily_prices WHERE date = .. AND ticker = ..
price_query(daily_prices, date, ticker) ==
    SelectSeq(daily_prices, LAMBDA r : r.date = date /\ r.ticker = ticker)

\* target_allocation without the division by the participant's weight total
target_allocation_raw(position, weights) ==
    RMul(Real(INITIAL_VALUE_USD), RDiv(Real(position.weight), Real(100)))

\* allocation_usd = INITIAL_VALUE_USD * (weight / person_weights[name])
target_allocation(position, weights) ==
    RMul(Real(INITIAL_VALUE_USD),
         RDiv(Real(position.weight), Real(weights[position.name])))

\* position_updates: one entry per position whose ticker has a price at the
\* anchor date
RECURSIVE position_updates(_, _, _, _)
position_updates(positions_df, weights, daily_prices, date) ==
    IF positions_df = <<>> THEN <<>>
    ELSE LET position == Head(positions_df)
             price_result == price_query(daily_prices, date,
                                         position.formatted_ticker)
             price == price_result[1].price
             shares == RDiv(target_allocation(position, weights), price)
         IN  (IF price_result # <<>>
              THEN << [name |-> position.name,
                       ticker |-> position.ticker,
                       shares |-> shares,
                       price_at_start |-> price,
                       allocation_usd |-> RMul(shares, price)] >>
              ELSE <<>>)
             \o position_updates(Tail(positions_df), weights, daily_prices, date)

\* update_query with SET shares = COALESCE(shares, 0) + ..
update_query_accumulate(positions, update) ==
    [i \in DOMAIN positions |->
        IF positions[i].name = update.name /\ positions[i].ticker = update.ticker
        THEN [positions[i] EXCEPT !.shares = RAdd(IF @ = NULL THEN Real(0) ELSE @,
                                                  update.shares),
                                  !.price_at_start = update.price_at_start,
                                  !.allocation_usd = update.allocation_usd]
        ELSE positions[i]]

\* update_query with WHERE name = .. alone
update_query_by_name(positions, update) ==
    [i \in DOMAIN positions |->
        IF positions[i].name = update.name
        THEN [positions[i] EXCEPT !.shares = update.shares,
                                  !.price_at_start = update.price_at_start,
                                  !.allocation_usd = update.allocation_usd]
        ELSE positions[i]]

\* UPDATE positions SET .. WHERE name = .. AND ticker = ..
update_query(positions, update) ==
    [i \in DOMAIN positions |->
        IF positions[i].name = update.name /\ positions[i].ticker = update.ticker
        THEN [positions[i] EXCEPT !.shares = update.shares,
                                  !.price_at_start = update.price_at_start,
                                  !.allocation_usd = update.allocation_usd]
        ELSE positions[i]]

RECURSIVE apply_updates(_, _)
apply_updates(positions, updates) ==
    IF updates = <<>> THEN positions
    ELSE apply_updates(update_query(positions, Head(updates)), Tail(updates))

calculate_and_save_portfolio_allocations(st) ==
    LET st1 == add_missing_columns(st)
        positions_df == st1.tables["positions"]
        date == closest_date_query(st1.tables["daily_prices"])
    IN  IF positions_df = <<>> THEN st1
        ELSE IF date = 0
             THEN [st1 EXCEPT !.error = "ValueError: no price data"]
        ELSE [st1 EXCEPT !.tables["positions"] =
                 apply_updates(positions_df,
                     position_updates(positions_df, person_weights(positions_df),
                                      st1.tables["daily_prices"], date))]

(***************************************************************************)
(* calculate_and_save_portfolio_values                                     *)
(***************************************************************************)
\* the names taken as they come, repeats included
Unique_none(s) == s

\* the distinct values of a sequence in order of first appearance
RECURSIVE Unique(_)
Unique(s) ==
    IF s = <<>> THEN <<>>
    ELSE LET rest == Unique(SubSeq(s, 1, Len(s) - 1))
             last == s[Len(s)]
         IN  IF last \in Range(rest) THEN rest ELSE Append(rest, last)

\* dict(zip(prices_result['date'], prices_result['price'])) for the rows of
\* one ticker on the valuation dates: a later row of the same date wins
price_dict(daily_prices, ticker, dates) ==
    LET rows == SelectSeq(daily_prices,
                          LAMBDA r : r.ticker = ticker /\ r.date \in dates)
    IN  [d \in {rows[i].date : i \in DOMAIN rows} |->
            LET last == CHOOSE i \in DOMAIN rows :
                            /\ rows[i].date = d
                            /\ \A j \in DOMAIN rows : rows[j].date = d => j <= i
            IN  rows[last].price]

\* daily_value with the last earlier price carried forward to a date that
\* has none
RECURSIVE daily_value_carry(_, _, _, _)
daily_value_carry(person_portfolio, daily_prices, dates, date) ==
    IF person_portfolio = <<>> THEN Real(0)
    ELSE LET position == Head(person_portfolio)
             prices == price_dict(daily_prices, position.formatted_ticker, dates)
             earlier == {d \in DOMAIN prices : d <= date}
         IN  RAdd(IF earlier # {}
                  THEN RMul(prices[SetMax(earlier)], position.shares)
                  ELSE Real(0),
                  daily_value_carry(Tail(person_portfolio), daily_prices, dates, date))

\* daily_values[date] of one participant: a position without a price on the
\* date adds nothing
RECURSIVE daily_value(_, _, _, _)
daily_value(person_portfolio, daily_prices, dates, date) ==
    IF person_portfolio = <<>> THEN Real(0)
    ELSE LET position == Head(person_portfolio)
             prices == price_dict(daily_prices, position.formatted_ticker, dates)
         IN  RAdd(IF date \in DOMAIN prices
                  THEN RMul(prices[date], position.shares)
                  ELSE Real(0),
                  daily_value(Tail(person_portfolio), daily_prices, dates, date))

\* pct_change relative to the capital in place of the first value
pct_change_of_capital(value, initial_value) ==
    RMul(RSub(RDiv(value, Real(INITIAL_VALUE_USD)), Real(1)), Real(100))

\* ((daily_values / initial_value) - 1) * 100
pct_change(value, initial_value) ==
    RMul(RSub(RDiv(value, initial_value), Real(1)), Real(100))

\* portfolio_values_data of one participant
portfolio_values_data(name, positions_df, daily_prices, dates) ==
    LET person_portfolio == SelectSeq(positions_df, LAMBDA r : r.name = name)
        ds == SortedSeq(dates)
        value(d) == daily_value(person_portfolio, daily_prices, dates, d)
        initial_value == value(ds[1])
    IN  [i \in DOMAIN ds |->
            [date |-> ds[i], name |-> name, value |-> value(ds[i]),
             pct_change |-> pct_change(value(ds[i]), initial_value)]]

\* positions_query without the WHERE clause
positions_query_all(positions) == positions

\* SELECT * FROM positions WHERE shares IS NOT NULL
positions_query(positions) ==
    SelectSeq(positions, LAMBDA r : Field(r, "shares") # NULL)

\* dates_query with WHERE date > closest_date
dates_query_after(daily_prices, date) ==
    {r.date : r \in {x \in Range(daily_prices) : x.date > date}}

\* dates_query without the WHERE clause
dates_query_all(daily_prices, date) ==
    {r.date : r \in Range(daily_prices)}

\* SELECT DISTINCT date FROM daily_prices WHERE date >= closest_date
dates_query(daily_prices, date) ==
    {r.date : r \in {x \in Range(daily_prices) : x.date >= date}}

\* for name in names: compute and write, 'replace' for names[0], else 'append'
RECURSIVE write_values(_, _, _, _, _)
write_values(st, names, first, positions_df, dates) ==
    IF names = <<>> THEN st
    ELSE write_values(
             write_data(st,
                 portfolio_values_data(Head(names), positions_df,
                                       st.tables["daily_prices"], dates),
                 "portfolio_values",
                 IF Head(names) = first THEN "replace" ELSE "append", 1000),
             Tail(names), first, positions_df, dates)

calculate_and_save_portfolio_values(st) ==
    LET positions_df == positions_query(st.tables["positions"])
        date == closest_date_query(st.tables["daily_prices"])
        dates == dates_query(st.tables["daily_prices"], date)
        names == Unique([i \in DOMAIN positions_df |-> positions_df[i].name])
    IN  IF positions_df = <<>> THEN st
        ELSE IF date = 0
             THEN [st EXCEPT !.error = "ValueError: no price data"]
        ELSE IF dates = {} THEN st
        ELSE write_values(st, names, names[1], positions_df, dates)

(***************************************************************************)
(* calculate_and_save_performance_metrics                                  *)
(***************************************************************************)
\* ORDER BY date (stable)
RECURSIVE OrderByDate(_)
OrderByDate(rows) ==
    IF rows = <<>> THEN <<>>
    ELSE LET i == CHOOSE k \in DOMAIN rows :
                      /\ \A j \in DOMAIN rows : rows[k].date <= rows[j].date
                      /\ \A j \in 1..(k - 1) : rows[j].date # rows[k].date
         IN  <<rows[i]>> \o OrderByDate(SubSeq(rows, 1, i - 1)
                                          \o SubSeq(rows, i + 1, Len(rows)))

\* SELECT date, value FROM portfolio_values WHERE name = .. ORDER BY date
values_query(portfolio_values, name) ==
    OrderByDate(SelectSeq(portfolio_values, LAMBDA r : r.name = name))

\* metrics_row with the span counted up to today in place of the last value
\* date
metrics_row_to_today(name, values_result, current_date) ==
    LET initial_value == values_result[1].value
        final_value == values_result[Len(values_result)].value
        days == current_date - values_result[1].date
    IN  [name |-> name,
         initial_value |-> initial_value,
         final_value |-> final_value,
         total_return_pct |->
             RMul(RSub(RDiv(final_value, initial_value), Real(1)), Real(100)),
         annualized_return_pct |->
             [ratio |-> RDiv(final_value, initial_value), days |-> days],
         last_updated |-> current_date]

\* the metrics row of one participant with a value series.  The annualized
\* return ((final / initial) ** (1 / years) - 1) * 100, years = days / 365.25,
\* is kept as its two arguments: the ratio and the number of days.
metrics_row(name, values_result, current_date) ==
    LET initial_value == values_result[1].value
        final_value == values_result[Len(values_result)].value
        days == values_result[Len(values_result)].date - values_result[1].date
    IN  [name |-> name,
         initial_value |-> initial_value,
         final_value |-> final_value,
         total_return_pct |->
             RMul(RSub(RDiv(final_value, initial_value), Real(1)), Real(100)),
         annualized_return_pct |->
             [ratio |-> RDiv(final_value, initial_value), days |-> days],
         last_updated |-> current_date]

\* metrics_loop raising for a participant without value rows in place of
\* the continue
RECURSIVE metrics_loop_strict(_, _, _, _)
metrics_loop_strict(acc, names, portfolio_values, current_date) ==
    IF names = <<>> \/ acc.error # "none" THEN acc
    ELSE LET values_result == values_query(portfolio_values, Head(names))
             days == values_result[Len(values_result)].date - values_result[1].date
         IN  IF values_result = <<>>
             THEN [acc EXCEPT !.error = "ValueError: no portfolio values"]
             ELSE IF days = 0
                  THEN [acc EXCEPT !.error = "ZeroDivisionError"]
             ELSE metrics_loop_strict(
                      [acc EXCEPT !.rows = Append(@,
                          metrics_row(Head(names), values_result, current_date))],
                      Tail(names), portfolio_values, current_date)

\* metrics_loop with 1 / years evaluated as numpy does: no exception, the row
\* of a series that spans zero days is stored with its undefined exponent
RECURSIVE metrics_loop_silent(_, _, _, _)
metrics_loop_silent(acc, names, portfolio_values, current_date) ==
    IF names = <<>> THEN acc
    ELSE LET values_result == values_query(portfolio_values, Head(names))
         IN  IF values_result = <<>>
             THEN metrics_loop_silent(acc, Tail(names), portfolio_values,
                                      current_date)
             ELSE metrics_loop_silent(
                      [acc EXCEPT !.rows = Append(@,
                          metrics_row(Head(names), values_result, current_date))],
                      Tail(names), portfolio_values, current_date)

\* the loop over names: acc.rows is metrics_data, acc.error the exception
\* raised by 1 / years when the series spans zero days
RECURSIVE metrics_loop(_, _, _, _)
metrics_loop(acc, names, portfolio_values, current_date) ==
    IF names = <<>> \/ acc.error # "none" THEN acc
    ELSE LET values_result == values_query(portfolio_values, Head(names))
             days == values_result[Len(values_result)].date - values_result[1].date
         IN  IF values_result = <<>>
             THEN metrics_loop(acc, Tail(names), portfolio_values, current_date)
             ELSE IF days = 0
                  THEN [acc EXCEPT !.error = "ZeroDivisionError"]
             ELSE metrics_loop(
                      [acc EXCEPT !.rows = Append(@,
                          metrics_row(Head(names), values_result, current_date))],
                      Tail(names), portfolio_values, current_date)

\* the summary written into a table that is kept from run to run once it
\* has been re-created, in place of the 'replace' of every run
save_metrics_incremental(st, metrics_data) ==
    write_data(st, metrics_data, "performance_metrics",
               IF st.schema["performance_metrics"] = "declared"
               THEN "replace" ELSE "append", 1000)

\* if metrics_data: write_data(metrics_df, 'performance_metrics', 'replace')
save_metrics(st, metrics_data) ==
    write_data(st, metrics_data, "performance_metrics", "replace", 1000)

calculate_and_save_performance_metrics(st, current_date) ==
    LET names == Unique([i \in DOMAIN st.tables["positions"] |->
                            st.tables["positions"][i].name])
        looped == metrics_loop([rows |-> <<>>, error |-> "none"], names,
                               st.tables["portfolio_values"], current_date)
    IN  IF names = <<>> THEN st
        ELSE IF looped.error # "none" THEN [st EXCEPT !.error = looped.error]
        ELSE save_metrics(st, looped.rows)

(***************************************************************************)
(* process_all_data: the five stages in order, each one step.  An          *)
(* exception ends the run where it is raised.                              *)
(***************************************************************************)
\* the symbols and currency pairs whose fetch can fail
Symbols == {positions_data[i].formatted_ticker : i \in DOMAIN positions_data}
Pairs == {SuffixCurrency(t) : t \in Symbols} \ {"USD"}

Failures ==
    {f \in [failedT : SUBSET Symbols, failedC : SUBSET Pairs] :
        \/ Cardinality(f.failedT) + Cardinality(f.failedC) <= MaxFailed
        \/ f.failedT = Symbols /\ f.failedC = Pairs}

\* the store after a stage, and where the run goes from there
Finish(st, next) ==
    /\ tables' = st.tables
    /\ schema' = st.schema
    /\ IF st.error # "none"
       THEN pc' = "idle" /\ result' = st.error
       ELSE pc' = next /\ result' = (IF next = "idle" THEN "ok" ELSE result)
    /\ snap' = (IF pc' = "idle" THEN NoTables ELSE snap)

\* a run begins: today's fetches will fail for the symbols in failedT and the
\* pairs in failedC
ProcessAllData ==
    /\ pc = "idle"
    /\ \E f \in Failures :
           inputs' = [end_date |-> now, failedT |-> f.failedT, failedC |-> f.failedC]
    /\ rerun' = (inputs' = inputs)
    /\ snap' = tables
    /\ pc' = "save_positions"
    /\ result' = "running"
    /\ closest_date' = 0
    /\ UNCHANGED <<tables, schema, now, local, call>>

SavePositions ==
    /\ pc = "save_positions"
    /\ Finish(save_positions(Store), "download")
    /\ UNCHANGED <<now, inputs, rerun, closest_date, local, call>>

Download ==
    /\ pc = "download"
    /\ Finish(download_and_save_stock_data(Store, inputs), "allocate")
    /\ UNCHANGED <<now, inputs, rerun, closest_date, local, call>>

Allocate ==
    /\ pc = "allocate"
    /\ Finish(calculate_and_save_portfolio_allocations(Store), "value")
    /\ closest_date' = closest_date_query(tables["daily_prices"])
    /\ UNCHANGED <<now, inputs, rerun, local, call>>

Value ==
    /\ pc = "value"
    /\ Finish(calculate_and_save_portfolio_values(Store), "metrics")
    /\ UNCHANGED <<now, inputs, rerun, closest_date, local, call>>

Metrics ==
    /\ pc = "metrics"
    /\ Finish(calculate_and_save_performance_metrics(Store, now), "idle")
    /\ UNCHANGED <<now, inputs, rerun, closest_date, local, call>>

\* a day passes between runs
Tick ==
    /\ pc = "idle"
    /\ now < MaxDate
    /\ now' = now + 1
    /\ UNCHANGED <<tables, schema, pc, inputs, rerun, snap, closest_date, result,
                   local, call>>

Next ==
    \/ ProcessAllData
    \/ SavePositions
    \/ Download
    \/ Allocate
    \/ Value
    \/ Metrics
    \/ Tick

Spec == Init /\ [][Next]_vars

(***************************************************************************)
(* process_all_data with a store that can become unreachable.  Every       *)
(* execute_query and write_data opens its own connection, and              *)
(* get_db_connection re-raises when it cannot connect: a stage that        *)
(* writes in a loop can be ended between two of its writes.                *)
(***************************************************************************)
\* the allocation stage ended by the connection failing at UPDATE n + 1
allocations_interrupted(st, n) ==
    LET st1 == add_missing_columns(st)
        positions_df == st1.tables["positions"]
        date == closest_date_query(st1.tables["daily_prices"])
        updates == position_updates(positions_df, person_weights(positions_df),
                                    st1.tables["daily_prices"], date)
    IN  [st1 EXCEPT !.tables["positions"] =
                        apply_updates(positions_df, SubSeq(updates, 1, n)),
                    !.error = "ConnectionError"]

\* the number of UPDATE statements the allocation stage would run
allocation_updates(st) ==
    LET st1 == add_missing_columns(st)
        positions_df == st1.tables["positions"]
        date == closest_date_query(st1.tables["daily_prices"])
    IN  IF positions_df = <<>> \/ date = 0 THEN 0
        ELSE Len(position_updates(positions_df, person_weights(positions_df),
                                  st1.tables["daily_prices"], date))

\* the participants whose values the valuation stage would write, in order
valued_names(st) ==
    LET positions_df == positions_query(st.tables["positions"])
        date == closest_date_query(st.tables["daily_prices"])
        dates == dates_query(st.tables["daily_prices"], date)
    IN  IF positions_df = <<>> \/ date = 0 \/ dates = {} THEN <<>>
        ELSE Unique([i \in DOMAIN positions_df |-> positions_df[i].name])

\* the valuation stage ended by the connection failing at the write_data of
\* participant n + 1
values_interrupted(st, n) ==
    LET positions_df == positions_query(st.tables["positions"])
        date == closest_date_query(st.tables["daily_prices"])
        dates == dates_query(st.tables["daily_prices"], date)
        names == valued_names(st)
        st1 == write_values(st, SubSeq(names, 1, n), names[1], positions_df, dates)
    IN  [st1 EXCEPT !.error = "ConnectionError"]

AllocateInterrupted ==
    /\ pc = "allocate"
    /\ \E n \in 0..(Len(tables["positions"]) - 1) :
           /\ n < allocation_updates(Store)
           /\ Finish(allocations_interrupted(Store, n), "value")
    /\ closest_date' = closest_date_query(tables["daily_prices"])
    /\ UNCHANGED <<now, inputs, rerun, local, call>>

ValueInterrupted ==
    /\ pc = "value"
    /\ \E n \in 0..(Len(tables["positions"]) - 1) :
           /\ n < Len(valued_names(Store))
           /\ Finish(values_interrupted(Store, n), "metrics")
    /\ UNCHANGED <<now, inputs, rerun, closest_date, local, call>>

NextFault ==
    \/ ProcessAllData
    \/ SavePositions
    \/ Download
    \/ Allocate
    \/ AllocateInterrupted
    \/ Value
    \/ ValueInterrupted
    \/ Metrics
    \/ Tick

SpecFault == Init /\ [][NextFault]_vars

(***************************************************************************)
(* get_formatted_ticker and the suffix inspection of the ingestion on      *)
(* their own: a position's raw ticker and exchange code are formatted as   *)
(* load_positions formats them, and the formatted ticker is put in a       *)
(* currency list as download_and_save_stock_data does.                     *)
(***************************************************************************)
\* the characters of a raw ticker; "." lets a raw ticker end in a suffix
TickerChars == {"A", "L", "V", "."}

\* a raw ticker begins with a letter
RawTickers ==
    {t \in UNION {[1..n -> TickerChars] : n \in 1..MaxTicker} : t[1] # "."}

\* the exchange codes of the configured list, and two the formatter does not
\* know
Exchanges ==
    {"NYSE", "NASDAQ", "HKG", "EPA", "LON", "TSE", "CVE", "XETRA", "ASX", ""}

InitTicker ==
    /\ InitStores
    /\ call \in [op : {"get_formatted_ticker"}, at : {"called"},
                 ticker : RawTickers, exchange : Exchanges]

\* position['formatted_ticker'] = get_formatted_ticker(ticker, exchange)
FormatTicker ==
    /\ call.op = "get_formatted_ticker" /\ call.at = "called"
    /\ call' = [op |-> call.op, at |-> "returned",
                ticker |-> call.ticker, exchange |-> call.exchange,
                formatted_ticker |->
                    get_formatted_ticker(call.ticker, call.exchange)]
    /\ UNCHANGED <<tables, schema, pc, now, inputs, rerun, snap, closest_date,
                   result, local>>

\* the if / elif chain over formatted_ticker.endswith(..)
ClassifyTicker ==
    /\ call.op = "get_formatted_ticker" /\ call.at = "returned"
    /\ call' = [op |-> call.op, at |-> "classified",
                ticker |-> call.ticker, exchange |-> call.exchange,
                formatted_ticker |-> call.formatted_ticker,
                currency |-> SuffixCurrency(call.formatted_ticker)]
    /\ UNCHANGED <<tables, schema, pc, now, inputs, rerun, snap, closest_date,
                   result, local>>

NextTicker ==
    \/ FormatTicker
    \/ ClassifyTicker

SpecTicker == InitTicker /\ [][NextTicker]_vars

(***************************************************************************)
(* The summarizer's loop body on its own: the value series of one          *)
(* participant, as portfolio_values can hold it, is summarized.            *)
(***************************************************************************)
\* the days of a value series: two days a calendar year apart from two
\* others
MetricDates == {1, 2, 366, 367}

\* stored values: the capital, a gain and a loss
MetricValues == {Real(INITIAL_VALUE_USD), Real(120000), Real(90000)}

\* the value rows of one participant, one row per date, in any table order
ValueSeries ==
    {s \in UNION {[1..n -> [date : MetricDates, name : {"Apoorva"},
                            value : MetricValues]] : n \in 1..MaxRows} :
        \A i, j \in DOMAIN s : s[i].date = s[j].date => i = j}

InitMetrics ==
    /\ InitStores
    /\ call \in [op : {"metrics_loop"}, at : {"called"},
                 portfolio_values : ValueSeries]

\* one pass of "for name in names" over the series
SummarizeOne ==
    /\ call.op = "metrics_loop" /\ call.at = "called"
    /\ LET looped == metrics_loop([rows |-> <<>>, error |-> "none"],
                                  <<"Apoorva">>, call.portfolio_values, now)
       IN  call' = [op |-> call.op, at |-> "returned",
                    portfolio_values |-> call.portfolio_values,
                    metrics_data |-> looped.rows, error |-> looped.error]
    /\ UNCHANGED <<tables, schema, pc, now, inputs, rerun, snap, closest_date,
                   result, local>>

NextMetrics == SummarizeOne

SpecMetrics == InitMetrics /\ [][NextMetrics]_vars

(***************************************************************************)
(* write_data on its own: a frame of rate rows is written to               *)
(* exchange_rates, which is missing, as create_tables declared it, or as   *)
(* an earlier write_data created it.                                       *)
(***************************************************************************)
RateRows ==
    [date : 1..2, from_currency : {"HKD"}, to_currency : {"USD"},
     rate : {Real(2)}]

\* df: rows in frame order, repeats allowed
Frames == UNION {[1..n -> RateRows] : n \in 0..MaxFrame}

\* the table before the call: missing or declared, without rows, or created
\* by an earlier write of one row
TablesBefore ==
    {[schema |-> "absent", rows |-> <<>>], [schema |-> "declared", rows |-> <<>>]}
        \cup {[schema |-> "inferred", rows |-> <<r>>] : r \in RateRows}

InitWrite ==
    /\ \E b \in TablesBefore :
           /\ tables = [NoTables EXCEPT !["exchange_rates"] = b.rows]
           /\ schema = [t \in TableNames |->
                           IF t = "exchange_rates" THEN b.schema ELSE "declared"]
    /\ pc = "idle" /\ now = FIXED_DATE /\ inputs = NoInputs /\ rerun = FALSE
    /\ snap = NoTables /\ closest_date = 0 /\ result = "none" /\ local = NoTables
    /\ call \in [op : {"write_data"}, at : {"called"}, df : Frames,
                 if_exists : {"replace", "append", "fail"},
                 batch_size : 1..MaxBatch]

\* write_data(df, 'exchange_rates', if_exists, batch_size)
WriteData ==
    /\ call.op = "write_data" /\ call.at = "called"
    /\ LET st == write_data(Store, call.df, "exchange_rates", call.if_exists,
                            call.batch_size)
       IN  /\ tables' = st.tables
           /\ schema' = st.schema
           /\ call' = [op |-> call.op, at |-> "returned", df |-> call.df,
                       if_exists |-> call.if_exists,
                       batch_size |-> call.batch_size,
                       before |-> [schema |-> schema["exchange_rates"],
                                   rows |-> tables["exchange_rates"]],
                       error |-> st.error]
    /\ UNCHANGED <<pc, now, inputs, rerun, snap, closest_date, result, local>>

NextWrite == WriteData

SpecWrite == InitWrite /\ [][NextWrite]_vars

(***************************************************************************)
(* Properties.                                                             *)
(***************************************************************************)
Positions == tables["positions"]
DailyPrices == tables["daily_prices"]
ExchangeRates == tables["exchange_rates"]
PortfolioValues == tables["portfolio_values"]
PerformanceMetrics == tables["performance_metrics"]

\* the sum of f[i] over the indices i in S
RECURSIVE SumR(_, _)
SumR(f, S) ==
    IF S = {} THEN Real(0)
    ELSE LET i == CHOOSE x \in S : TRUE
         IN  RAdd(f[i], SumR(f, S \ {i}))

\* the days on or before the valuation date that have a stored price
AnchorCandidates == {d \in Dates : d <= FIXED_DATE /\ \E r \in Range(DailyPrices) : r.date = d}

\* the stored prices of a ticker on a day
PricesAt(ticker, d) ==
    {r.price : r \in {x \in Range(DailyPrices) : x.ticker = ticker /\ x.date = d}}

\* the allocation stage of the current or last run has completed
AllocationDone ==
    \/ pc \in {"value", "metrics"}
    \/ pc = "idle" /\ result \in {"ok", "ZeroDivisionError"}

\* the valuation stage of the current or last run has completed
ValuationDone ==
    \/ pc = "metrics"
    \/ pc = "idle" /\ result \in {"ok", "ZeroDivisionError"}

\* C1: every stored price is the fetched close times the FX rate of the same
\* day, the rate applied exactly once, for a ticker in a foreign currency, and
\* the fetched close itself for a ticker in the reporting currency.
C1_PriceConvertedOnce ==
    \A r \in Range(DailyPrices) :
        r.price = IF SuffixCurrency(r.ticker) = "USD"
                  THEN Close(r.ticker, r.date)
                  ELSE RMul(Close(r.ticker, r.date),
                            FxClose(SuffixCurrency(r.ticker), r.date))

\* C2: a foreign-currency ticker has a stored row only on a day on which both
\* its price series and its currency's rate series have a value.
C2_InnerJoinOnDate ==
    \A r \in Range(DailyPrices) :
        SuffixCurrency(r.ticker) # "USD" =>
            /\ ~IsNaN(Close(r.ticker, r.date))
            /\ ~IsNaN(FxClose(SuffixCurrency(r.ticker), r.date))
            /\ IsFinite(r.price)

\* a run has just stored day 3 for some ticker, fetched ALV.DE (priced on day
\* 3, no EUR rate that day) and 0700.HK (HKD rate on day 3, no trade), and
\* both have earlier rows but none on day 3
C2_Witness ==
    /\ pc = "allocate"
    /\ inputs.failedT = {} /\ inputs.failedC = {}
    /\ \E r \in Range(DailyPrices) : r.date = 3
    /\ \E r \in Range(ExchangeRates) : r.date = 3 /\ r.from_currency = "HKD"
    /\ \A t \in {ALV_DE, T0700_HK} :
           /\ PricesAt(t, 2) # {}
           /\ PricesAt(t, 3) = {}

FullRun ==
    download_and_save_stock_data(
        save_positions([tables |-> NoTables,
                        schema |-> [t \in TableNames |-> "declared"],
                        error |-> "none"]),
        inputs)

\* C4: after the ingestion of a run that fetched everything, daily_prices and
\* exchange_rates hold the row sets that one run from an empty store at that
\* time would hold, whatever earlier runs failed to fetch.
C4_IncrementalEqualsFull ==
    (pc = "allocate" /\ inputs.failedT = {} /\ inputs.failedC = {}) =>
        /\ Range(DailyPrices) = Range(FullRun.tables["daily_prices"])
        /\ Range(ExchangeRates) = Range(FullRun.tables["exchange_rates"])

\* C5: daily_prices holds at most one row per (date, ticker).
C5_UniqueDateTicker ==
    \A i, j \in DOMAIN DailyPrices :
        (DailyPrices[i].date = DailyPrices[j].date
            /\ DailyPrices[i].ticker = DailyPrices[j].ticker) => i = j

\* C6: the allocation stage goes on exactly when some stored price is dated on
\* or before FIXED_DATE, and the anchor date it resolves is the greatest such
\* date; otherwise it raises.
C6_AnchorDate ==
    /\ pc \in {"value", "metrics"} =>
           /\ closest_date \in AnchorCandidates
           /\ \A d \in AnchorCandidates : d <= closest_date
    /\ (pc = "idle" /\ result = "ValueError: no price data") =>
           AnchorCandidates = {}

\* the anchor date is resolved while later days and an earlier day are stored
C6_Witness ==
    /\ pc = "value"
    /\ closest_date = FIXED_DATE
    /\ \E r \in Range(DailyPrices) : r.date > FIXED_DATE
    /\ \E r \in Range(DailyPrices) : r.date < FIXED_DATE

\* C7: when no stored price is dated on or before the valuation date the
\* allocation stage raises, and the shares, price_at_start and allocation_usd
\* of every positions row are what they were before the call.
C7_RaiseWithoutPartialWrite ==
    [][(pc = "allocate" /\ Positions # <<>>
            /\ ~\E r \in Range(DailyPrices) : r.date <= FIXED_DATE) =>
        /\ result' = "ValueError: no price data"
        /\ pc' = "idle"
        /\ Len(tables'["positions"]) = Len(Positions)
        /\ \A i \in DOMAIN Positions : \A f \in AllocationColumns :
               Field(tables'["positions"][i], f) = Field(Positions[i], f)]_vars

\* a run was ended by the missing anchor date
C7_Witness ==
    /\ pc = "idle"
    /\ result = "ValueError: no price data"
    /\ Positions # <<>>

\* the indices of a participant's positions rows, and the weight they sum to
RowsOf(name) == {i \in DOMAIN Positions : Positions[i].name = name}
Names == {Positions[i].name : i \in DOMAIN Positions}
WeightTotal(name) == SumR([i \in RowsOf(name) |-> Real(Positions[i].weight)], RowsOf(name))
NormalizedWeight(i) == RDiv(Real(Positions[i].weight), WeightTotal(Positions[i].name))

\* C8: the target allocation of every position is the capital times
\* weight / (sum of the participant's weights); per participant the normalized
\* weights sum to 1 and the targets to the capital, and so do the stored
\* allocations of a participant whose positions are all allocated.
C8_NormalizedWeights ==
    /\ pc = "allocate" =>
           /\ \A i \in DOMAIN Positions :
                  target_allocation(Positions[i], person_weights(Positions))
                      = RMul(Real(INITIAL_VALUE_USD), NormalizedWeight(i))
           /\ \A name \in Names :
                  /\ SumR([i \in RowsOf(name) |-> NormalizedWeight(i)],
                          RowsOf(name)) = Real(1)
                  /\ SumR([i \in RowsOf(name) |->
                              target_allocation(Positions[i], person_weights(Positions))],
                          RowsOf(name)) = Real(INITIAL_VALUE_USD)
    /\ AllocationDone =>
           \A name \in Names :
               (\A i \in RowsOf(name) : Field(Positions[i], "shares") # NULL) =>
                   SumR([i \in RowsOf(name) |-> Positions[i].allocation_usd],
                        RowsOf(name)) = Real(INITIAL_VALUE_USD)

\* a participant whose weights sum to 0.5 has been allocated in full
C8_Witness ==
    /\ pc = "value"
    /\ \E name \in Names :
           /\ WeightTotal(name) = Real(50)
           /\ \A i \in RowsOf(name) : Field(Positions[i], "shares") # NULL

\* C9: a position whose ticker has a price at the anchor date is stored with
\* price_at_start = that price, shares = (capital x weight / participant
\* weight total) / price and allocation_usd = shares x price.
C9_AllocationValues ==
    AllocationDone =>
        \A i \in DOMAIN Positions :
            \A price \in PricesAt(Positions[i].formatted_ticker, closest_date) :
                /\ Positions[i].price_at_start = price
                /\ Positions[i].shares =
                       RDiv(RMul(Real(INITIAL_VALUE_USD), NormalizedWeight(i)), price)
                /\ Positions[i].allocation_usd = RMul(Positions[i].shares, price)

\* weight 0.4 of a total of 1 at an anchor price of 10: 4000 shares, 40000 USD
C9_Witness ==
    /\ pc = "value"
    /\ \E i \in DOMAIN Positions :
           /\ Positions[i].weight = 40 /\ WeightTotal(Positions[i].name) = Real(100)
           /\ PricesAt(Positions[i].formatted_ticker, closest_date) = {Real(10)}
           /\ Positions[i].shares = Real(4000)
           /\ Positions[i].allocation_usd = Real(40000)

\* the position of row i has no stored price at the anchor date
Skipped(i) == PricesAt(Positions[i].formatted_ticker, closest_date) = {}

\* shares x price on a day of the rows in S, nothing for a row without a
\* price that day
ValueOf(S, d) ==
    SumR([i \in S |->
             LET prices == PricesAt(Positions[i].formatted_ticker, d)
             IN  IF prices = {} THEN Real(0)
                 ELSE RMul(Positions[i].shares, CHOOSE price \in prices : TRUE)],
         S)

\* C10: a position without a price at the anchor date does not fail the run
\* (only the lack of any anchor date does); every run first clears the three
\* allocation fields, after the allocation they are null for that position
\* and set for every other position, and every portfolio value is the sum
\* over the participant's other positions alone.
C10_SkippedPosition ==
    /\ (pc = "idle" /\ result = "ValueError: no price data") =>
           AnchorCandidates = {}
    /\ pc \in {"download", "allocate"} =>
           \A i \in DOMAIN Positions : \A f \in AllocationColumns :
               Field(Positions[i], f) = NULL
    /\ AllocationDone =>
           \A i \in DOMAIN Positions :
               IF Skipped(i)
               THEN \A f \in AllocationColumns : Field(Positions[i], f) = NULL
               ELSE \A f \in AllocationColumns : IsFinite(Field(Positions[i], f))
    /\ ValuationDone =>
           /\ \A r \in Range(PortfolioValues) :
                  /\ \E i \in RowsOf(r.name) : ~Skipped(i)
                  /\ r.value = ValueOf({i \in RowsOf(r.name) : ~Skipped(i)}, r.date)
           /\ \A name \in Names :
                  (\E i \in RowsOf(name) : ~Skipped(i)) =>
                      \E r \in Range(PortfolioValues) : r.name = name

\* a run has completed in which one position of a participant was skipped and
\* the other allocated and valued
C10_Witness ==
    /\ pc = "idle" /\ result = "ok"
    /\ \E i, j \in DOMAIN Positions :
           /\ Positions[i].name = Positions[j].name
           /\ Skipped(i) /\ ~Skipped(j)
           /\ \E r \in Range(PortfolioValues) :
                  r.name = Positions[i].name /\ r.value # Real(0)

\* the latest stored day on or before the valuation date, 0 if none
Anchor == IF AnchorCandidates = {} THEN 0 ELSE SetMax(AnchorCandidates)

\* C11: in every state, during and after any number of runs, a positions row
\* with a share count has a daily_prices row for its formatted ticker at the
\* anchor date, which is the date the allocation stage resolved.
C11_SharesHaveAnchorPrice ==
    \A i \in DOMAIN Positions :
        Field(Positions[i], "shares") # NULL =>
            /\ Anchor # 0
            /\ PricesAt(Positions[i].formatted_ticker, Anchor) # {}
            /\ AllocationDone => closest_date = Anchor

\* a later run has ingested new rows and allocated again, and a ticker that
\* has stored rows but none at the anchor date has no share count
C11_Witness ==
    /\ pc = "value"
    /\ snap["positions"] # <<>>
    /\ Len(DailyPrices) > Len(snap["daily_prices"])
    /\ \E i, j \in DOMAIN Positions :
           /\ Field(Positions[i], "shares") # NULL
           /\ Field(Positions[j], "shares") = NULL
           /\ \E r \in Range(DailyPrices) : r.ticker = Positions[j].formatted_ticker

\* C12: right after the allocation stage has run, another call of it on the
\* same positions and daily_prices raises nothing and leaves the positions
\* table as it is: the same rows in the same order, one per (participant, raw
\* ticker), with the same shares, price_at_start and allocation_usd.
C12_AllocationIdempotent ==
    pc \in {"value", "metrics"} =>
        LET again == calculate_and_save_portfolio_allocations(Store)
        IN  /\ again.error = "none"
            /\ again.tables["positions"] = Positions
            /\ again.tables["daily_prices"] = DailyPrices
            /\ \A i, j \in DOMAIN Positions :
                   (Positions[i].name = Positions[j].name
                        /\ Positions[i].ticker = Positions[j].ticker) => i = j

\* the allocation stage has set the share counts of some positions and
\* skipped another
C12_Witness ==
    /\ pc = "value"
    /\ \E i, j \in DOMAIN Positions :
           /\ IsFinite(Field(Positions[i], "shares"))
           /\ Positions[i].shares # Real(0)
           /\ Field(Positions[j], "shares") = NULL

\* the days from the anchor date on that have a stored price of any ticker
ValuationDates ==
    {d \in Dates : d >= closest_date /\ \E r \in Range(DailyPrices) : r.date = d}

\* the positions rows of a participant that have a share count
Allocated(name) == {i \in RowsOf(name) : Field(Positions[i], "shares") # NULL}

\* C13: after the valuation stage every participant with an allocated
\* position has, for every valuation date, a stored value equal to the sum
\* over the participant's allocated positions of shares x the ticker's price on
\* that date, a position without a price on the date adding 0.
C13_DailyValue ==
    ValuationDone =>
        \A name \in Names :
            Allocated(name) # {} =>
                \A d \in ValuationDates :
                    /\ \E r \in Range(PortfolioValues) : r.name = name /\ r.date = d
                    /\ \A r \in Range(PortfolioValues) :
                           (r.name = name /\ r.date = d) =>
                               r.value = ValueOf(Allocated(name), d)

\* 4000 shares bought at 10 are worth 48000 on the next day at 12, the
\* participant's other allocated position having no price on that day
C13_Witness ==
    /\ pc = "metrics"
    /\ \E i, j \in DOMAIN Positions : \E d \in ValuationDates :
           /\ i # j /\ Positions[i].name = Positions[j].name
           /\ Positions[i].shares = Real(4000)
           /\ Positions[i].price_at_start = Real(10)
           /\ PricesAt(Positions[i].formatted_ticker, d) = {Real(12)}
           /\ Field(Positions[j], "shares") # NULL
           /\ PricesAt(Positions[j].formatted_ticker, d) = {}
           /\ \E r \in Range(PortfolioValues) :
                  /\ r.name = Positions[i].name /\ r.date = d
                  /\ r.value = Real(48000)
                  /\ r.pct_change = Real(-52)

\* the stored values of a participant on a day
ValuesAt(name, d) ==
    {r.value : r \in {x \in Range(PortfolioValues) : x.name = name /\ x.date = d}}

\* C14: after the valuation stage every participant in portfolio_values has
\* a row at the anchor date, with a finite value other than 0 and pct_change
\* 0, and the pct_change of each of its rows is
\* (value / the participant's own value at the anchor date - 1) x 100.
C14_PctChange ==
    ValuationDone =>
        \A r \in Range(PortfolioValues) :
            /\ ValuesAt(r.name, closest_date) # {}
            /\ r.date >= closest_date
            /\ \A v0 \in ValuesAt(r.name, closest_date) :
                   /\ IsFinite(v0) /\ v0 # Real(0)
                   /\ r.pct_change =
                          RMul(RSub(RDiv(r.value, v0), Real(1)), Real(100))
            /\ r.date = closest_date => r.pct_change = Real(0)

\* a participant whose value at the anchor date is not the capital has a
\* later row with a pct_change other than 0
C14_Witness ==
    /\ pc = "metrics"
    /\ \E r \in Range(PortfolioValues) :
           /\ r.date > closest_date
           /\ r.pct_change # Real(0)
           /\ IsFinite(r.pct_change)
           /\ ValuesAt(r.name, closest_date) # {}
           /\ Real(INITIAL_VALUE_USD) \notin ValuesAt(r.name, closest_date)

\* C15: after the valuation stage every portfolio_values row is dated on or
\* after the anchor date, on a day for which daily_prices holds a row of some
\* ticker, and every participant in the table has a row for every such day.
C15_ValuationDates ==
    ValuationDone =>
        /\ \A r \in Range(PortfolioValues) :
               /\ r.date >= closest_date
               /\ \E p \in Range(DailyPrices) : p.date = r.date
        /\ \A r \in Range(PortfolioValues) :
               \A d \in Dates :
                   (d >= closest_date /\ \E p \in Range(DailyPrices) : p.date = d) =>
                       ValuesAt(r.name, d) # {}

\* values are stored for the anchor date and a later day while daily_prices
\* also holds a day before the anchor date
C15_Witness ==
    /\ pc = "metrics"
    /\ \E p \in Range(DailyPrices) : p.date < closest_date
    /\ \E r \in Range(PortfolioValues) : r.date = closest_date
    /\ \E r \in Range(PortfolioValues) : r.date > closest_date

\* C16: in every state portfolio_values holds at most one row per (date,
\* participant); after a valuation stage it holds the rows of that stage
\* alone, one per valuation date for each participant with an allocated
\* position.
C16_UniqueDateName ==
    /\ \A i, j \in DOMAIN PortfolioValues :
           (PortfolioValues[i].date = PortfolioValues[j].date
               /\ PortfolioValues[i].name = PortfolioValues[j].name) => i = j
    /\ ValuationDone =>
           /\ \A r \in Range(PortfolioValues) : Allocated(r.name) # {}
           /\ Len(PortfolioValues) =
                  Cardinality({name \in Names : Allocated(name) # {}})
                      * Cardinality(ValuationDates)

\* a later run has valued several participants over a table that an earlier
\* run had filled
C16_Witness ==
    /\ pc = "metrics"
    /\ snap["portfolio_values"] # <<>>
    /\ Cardinality({r.name : r \in Range(PortfolioValues)}) > 1
    /\ Len(PortfolioValues) > Len(snap["portfolio_values"])

\* the participants none of whose positions has a share count
Unallocated == {name \in Names : Allocated(name) = {}}

\* C17: no portfolio_values row has an undefined value or pct_change and no
\* performance_metrics row an undefined return; a participant none of whose
\* positions has a share count is left out by the valuation stage, which
\* stores no row for it, and by the summarizer of a run that completes.
C17_NoUndefinedPercentage ==
    /\ \A r \in Range(PortfolioValues) :
           IsFinite(r.value) /\ IsFinite(r.pct_change)
    /\ \A m \in Range(PerformanceMetrics) :
           /\ IsFinite(m.total_return_pct)
           /\ IsFinite(m.annualized_return_pct.ratio)
           /\ m.annualized_return_pct.days > 0
    /\ ValuationDone =>
           \A r \in Range(PortfolioValues) : r.name \notin Unallocated
    /\ (pc = "idle" /\ result = "ok") =>
           \A m \in Range(PerformanceMetrics) : m.name \notin Unallocated

\* a run has completed with values and metrics for other participants while
\* one participant has no position with a share count
C17_Witness ==
    /\ pc = "idle" /\ result = "ok"
    /\ Unallocated # {}
    /\ PortfolioValues # <<>>
    /\ PerformanceMetrics # <<>>

\* the days on which a participant has a stored value
ValueDays(name) == {r.date : r \in {x \in Range(PortfolioValues) : x.name = name}}

\* some participant's value series spans zero days
ZeroSpan == \E name \in Names : Cardinality(ValueDays(name)) = 1

\* C18: when the summarizer runs while a participant's value series spans
\* zero days it raises (ZeroDivisionError, from 1 / years), which ends the
\* run, and it writes nothing: performance_metrics is left as it was and never
\* holds a row computed over a span of zero days.
C18_ZeroSpanRaises ==
    [][(pc = "metrics" /\ ZeroSpan) =>
        /\ pc' = "idle"
        /\ result' = "ZeroDivisionError"
        /\ tables' = tables
        /\ \A m \in Range(tables'["performance_metrics"]) :
               m.annualized_return_pct.days > 0]_vars

\* a run was ended by the summarizer over value series of the anchor date
\* alone, the anchor date being the latest stored day
C18_Witness ==
    /\ pc = "idle" /\ result = "ZeroDivisionError"
    /\ PortfolioValues # <<>>
    /\ \A r \in Range(PortfolioValues) : r.date = closest_date
    /\ \A p \in Range(DailyPrices) : p.date <= closest_date

\* a participant's summary can be computed: its value series spans some days
Computable(name) == Cardinality(ValueDays(name)) > 1

OneFetchFailed == Cardinality(inputs.failedT) + Cardinality(inputs.failedC) = 1

\* C20: in a run in which the fetch of one ticker's prices or of one
\* currency's rates fails, no exception ends the ingestion, the allocation or
\* the valuation stage: each goes on to the next stage, up to the summary.
C20_FetchFailureNotPropagated ==
    [][(OneFetchFailed /\ pc \in {"download", "allocate", "value"}) =>
           pc' # "idle"]_vars

\* the rows a step adds to daily_prices
NewPrices == {r \in Range(tables'["daily_prices"]) : r \notin Range(DailyPrices)}

\* C21: an ingestion in which the rate fetch of a currency returns no values
\* (every price fetch succeeding) does not end the run, stores no row for
\* any ticker in that currency and stores rows for the tickers of every
\* other currency.
C21_NoRateNoPrice ==
    [][(pc = "download" /\ inputs.failedC # {} /\ inputs.failedT = {}) =>
           /\ pc' = "allocate"
           /\ \A r \in NewPrices : SuffixCurrency(r.ticker) \notin inputs.failedC
           /\ \A t \in Symbols :
                  SuffixCurrency(t) \notin inputs.failedC =>
                      \E r \in Range(tables'["daily_prices"]) : r.ticker = t]_vars

\* the earliest of a set of days
Earliest(S) == CHOOSE x \in S : \A y \in S : x <= y

\* the rows of performance_metrics after a step, for one participant
MetricsOf(name) ==
    {i \in DOMAIN tables'["performance_metrics"] :
        tables'["performance_metrics"][i].name = name}

\* C23: when the summarizer completes, performance_metrics holds one row for
\* each participant with portfolio values and no other row, and every row
\* is the one computed in this run: dated today, from the participant's
\* values at the earliest and at the latest of its value days.
C23_MetricsOfThisRun ==
    [][(pc = "metrics" /\ pc' = "idle" /\ result' = "ok") =>
           /\ \A name \in Names :
                  Cardinality(MetricsOf(name)) =
                      IF ValueDays(name) = {} THEN 0 ELSE 1
           /\ \A m \in Range(tables'["performance_metrics"]) :
                  /\ m.name \in Names
                  /\ m.last_updated = now
                  /\ m.initial_value \in ValuesAt(m.name, Earliest(ValueDays(m.name)))
                  /\ m.final_value \in ValuesAt(m.name, SetMax(ValueDays(m.name)))]_vars

\* the summarizer has completed in a run that repeats the run before it,
\* over a table that already held a summary
C23_Witness ==
    /\ pc = "idle" /\ result = "ok" /\ rerun
    /\ schema["performance_metrics"] = "inferred"
    /\ PerformanceMetrics # <<>>

\* C27: no step removes or changes a stored row of daily_prices or of
\* exchange_rates; and the 'replace' of the HKD block, taken while no HKD
\* rate is stored, finds no rate of another currency to remove: as long as
\* no HKD rate is stored, exchange_rates has no row.
C27_AppendOnly ==
    /\ [][/\ Range(DailyPrices) \subseteq Range(tables'["daily_prices"])
          /\ Range(ExchangeRates) \subseteq Range(tables'["exchange_rates"])]_vars
    /\ []((\A r \in Range(ExchangeRates) : r.from_currency # "HKD") =>
              ExchangeRates = <<>>)

\* a later ingestion has run over stored prices and over stored rates of two
\* currencies, and has added to both tables
C27_Witness ==
    /\ pc = "allocate"
    /\ \E r \in Range(ExchangeRates) : r.from_currency = "HKD" /\ r.date < now
    /\ \E r \in Range(ExchangeRates) : r.from_currency = "EUR" /\ r.date < now
    /\ \E r \in Range(ExchangeRates) : r.date = now
    /\ \E r \in Range(DailyPrices) : r.date = now
    /\ \E r \in Range(snap["daily_prices"]) : r.date < now

\* the sum of allocation_usd over a participant's allocated positions
AllocatedUsd(name) ==
    SumR([i \in Allocated(name) |-> Positions[i].allocation_usd], Allocated(name))

\* C29: after the valuation stage the value stored at the anchor date for a
\* participant with an allocated position is the sum of allocation_usd over
\* its allocated positions; it is above 0 when the anchor prices of those
\* positions are, and it is the capital when every position of the
\* participant is allocated.
C29_AnchorValue ==
    pc = "metrics" =>
        \A name \in Names :
            Allocated(name) # {} =>
                /\ ValuesAt(name, closest_date) = {AllocatedUsd(name)}
                /\ (\A i \in Allocated(name) :
                        IsFinite(Positions[i].price_at_start)
                            /\ Positions[i].price_at_start[1] > 0) =>
                       IsFinite(AllocatedUsd(name)) /\ AllocatedUsd(name)[1] > 0
                /\ Allocated(name) = RowsOf(name) =>
                       AllocatedUsd(name) = Real(INITIAL_VALUE_USD)

\* values are stored for a participant all of whose positions are allocated
\* and for one with a position that has no anchor price, whose value at the
\* anchor date is below the capital
C29_Witness ==
    /\ pc = "metrics"
    /\ \E name \in Names :
           /\ Cardinality(RowsOf(name)) > 1
           /\ Allocated(name) = RowsOf(name)
           /\ ValuesAt(name, closest_date) = {Real(INITIAL_VALUE_USD)}
    /\ \E name \in Names :
           /\ Allocated(name) # {} /\ Allocated(name) # RowsOf(name)
           /\ ValuesAt(name, closest_date) # {}
           /\ Real(INITIAL_VALUE_USD) \notin ValuesAt(name, closest_date)

\* db.query(Position).count() of the dashboard, whose db is the session of
\* src/db/database.py on data/stocks.db
positions_count == Len(local["positions"])

\* C30: when a run that the dashboard started with process_all_data(db) has
\* completed, the tables of the store behind db, which the dashboard reads,
\* are the ones the run wrote, and the dashboard's position count is above 0.
C30_PersistsIntoPassedStore ==
    (pc = "idle" /\ result = "ok") =>
        /\ \A t \in TableNames : local[t] = tables[t]
        /\ positions_count > 0

\* the suffix of each exchange that has one
ExchangeSuffix ==
    [HKG |-> <<".", "H", "K">>, EPA |-> <<".", "P", "A">>, LON |-> <<".", "L">>,
     CVE |-> <<".", "V">>, XETRA |-> <<".", "D", "E">>,
     TSE |-> <<"-", "A", ".", "T", "O">>]

\* C25: get_formatted_ticker returns for every raw ticker and exchange code;
\* what it returns is the raw ticker followed by the exchange's suffix for
\* HKG, EPA, LON, CVE, XETRA and TSE and the raw ticker itself for NYSE, NASDAQ
\* and every other code.
C25_FormattedTicker ==
    /\ (call.op = "get_formatted_ticker" /\ call.at = "called") =>
           ENABLED FormatTicker
    /\ (call.op = "get_formatted_ticker" /\ call.at # "called") =>
           call.formatted_ticker =
               IF call.exchange \in DOMAIN ExchangeSuffix
               THEN call.ticker \o ExchangeSuffix[call.exchange]
               ELSE call.ticker

\* a Toronto ticker has been formatted with its share class and suffix
C25_Witness ==
    /\ call.op = "get_formatted_ticker" /\ call.at = "returned"
    /\ call.exchange = "TSE"
    /\ call.ticker = <<"A">>
    /\ call.formatted_ticker = <<"A", "-", "A", ".", "T", "O">>

\* the currency in which each exchange with a suffix trades
ExchangeCurrency ==
    [HKG |-> "HKD", EPA |-> "EUR", XETRA |-> "EUR", LON |-> "GBP",
     TSE |-> "CAD", CVE |-> "CAD"]

Years(days) == Frac(days * 100, 36525)

\* whether a stored annualized return ((ratio ** (1 / years)) - 1) * 100
\* equals the total return (ratio - 1) * 100 of the same row: a power of a
\* ratio above 0 equals the ratio only for the exponent 1 or the ratio 1
ReturnsEqual(m) ==
    \/ Years(m.annualized_return_pct.days) = Real(1)
    \/ m.annualized_return_pct.ratio = Real(1)

\* the rows of the series given to the summarizer, by date
SeriesDays == {call.portfolio_values[i].date : i \in DOMAIN call.portfolio_values}
SeriesValue(d) ==
    (CHOOSE r \in Range(call.portfolio_values) : r.date = d).value

C28_WriteDataContract ==
    (call.op = "write_data" /\ call.at = "returned") =>
        IF call.df = <<>>
        THEN /\ call.error = "none"
             /\ ExchangeRates = call.before.rows
             /\ schema["exchange_rates"] = call.before.schema
        ELSE /\ call.if_exists = "replace" =>
                    call.error = "none" /\ ExchangeRates = call.df
             /\ call.if_exists = "append" =>
                    /\ call.error = "none"
                    /\ ExchangeRates = call.before.rows \o call.df
             /\ call.before.schema = "absent" =>
                    call.error = "none" /\ ExchangeRates = call.df

\* the positions whose ticker has a price at the anchor date
Priced == {i \in DOMAIN Positions :
              PricesAt(Positions[i].formatted_ticker, Anchor) # {}}

\* C22: a stage that fails leaves its table whole.  The allocation stage,
\* when it fails, leaves positions with the shares, price and allocation of
\* this run in every row that has an anchor price or in none; the valuation
\* stage, when it fails, leaves portfolio_values as it was or with the rows
\* of every participant that has an allocated position.
C22_NoHalfWrittenTable ==
    [][/\ (pc = "allocate" /\ pc' = "idle") =>
              \/ \A i \in Priced : Field(tables'["positions"][i], "shares") # NULL
              \/ \A i \in Priced : Field(tables'["positions"][i], "shares") = NULL
       /\ (pc = "value" /\ pc' = "idle") =>
              \/ tables'["portfolio_values"] = PortfolioValues
              \/ {r.name : r \in Range(tables'["portfolio_values"])} =
                     {name \in Names : Allocated(name) # {}}]_vars

====
